---- MODULE Spec2Model ----
(***************************************************************************)
(* A model of canu's overlap store file, ovFile (src/stores/ovStoreFile.C): *)
(* the buffered writer and reader of packed overlap records, the optional  *)
(* snappy block compression of each flushed buffer, the per-read overlap   *)
(* counts kept while writing a dump file, and seeking; and of the          *)
(* decompressed byte stream bzipBuffer (bzipBuffer.H) that a compressed    *)
(* input is read through.                                                  *)
(*                                                                         *)
(* Sizes are the program's own: the word buffer holds _bufferMax 32-bit    *)
(* words as the constructor computes it, and the counts array starts at    *)
(* 128 * 1024 entries.  Two representations are compact without changing   *)
(* what the code can observe:                                              *)
(*   _buffer       holds the words [0, _bufferLen) the code has stored or  *)
(*                 loaded; the code never reads a word at or past          *)
(*                 _bufferLen.                                             *)
(*   _olapsPerRead is [null, at]: whether the pointer is NULL, and the      *)
(*                 entries of the array that are not zero; every other     *)
(*                 entry below _olapsPerReadAlloc is zero (memset, or      *)
(*                 cleared by resizeArray).                                *)
(***************************************************************************)
EXTENDS Integers, Sequences, FiniteSets, TLC

VARIABLES
  SNAPPY,             \* build: compiled with -DSNAPPY
  ovOverlapNWORDS,    \* build: payload variant, 5, 3 or 8
  pc,                 \* life of the one handle: none, writer, closed, reader, aborted
  _bufferLen, _bufferPos, _bufferMax, _buffer,
  _olapsPerReadAlloc, _olapsPerReadLast, _olapsPerRead,
  _isOutput, _isSeekable, _isNormal, _useSnappy,
  disk,               \* the contents of the file <name>
  units,              \* history: the words of each flush unit handed to the stream
  filePos,            \* the reader's position in the file, in bytes
  countsFile,         \* the contents of <prefix>.counts
  written,            \* history: the records the writer accepted, in order
  out,                \* history: the records the reader returned, in order
  ret,                \* history: the last call, what it returned, and its count argument
  calls,              \* history: the calls made on the handle, newest last
  allocSeen,          \* history: the capacities the counts array has had
  countOOB,           \* history: a counter at or past _olapsPerReadAlloc was incremented
  requested,          \* history: the bufferSize the handle was constructed with
  bz,                 \* the bzipBuffer: _eof, _filePos, _bzip2outPos, avail_out, _bzip2out,
                      \* and rest, the decompressed chunks the stream has yet to deliver
  bzRet,              \* history: the last call on the bzipBuffer and what it returned
  growLoop            \* the counts array's growth loop: its locals newmax and newlast,
                      \* each a uint32, its position at (idle, loop, done), and as
                      \* history the additions made and whether one passed 2^32

vars == <<SNAPPY, ovOverlapNWORDS, pc, _bufferLen, _bufferPos, _bufferMax, _buffer,
          _olapsPerReadAlloc, _olapsPerReadLast, _olapsPerRead,
          _isOutput, _isSeekable, _isNormal, _useSnappy,
          disk, units, filePos, countsFile, written, out, ret, calls, allocSeen, countOOB,
          requested, bz, bzRet, growLoop>>

buildVars  == <<SNAPPY, ovOverlapNWORDS>>
bufVars    == <<_bufferLen, _bufferPos, _bufferMax, _buffer>>
countVars  == <<_olapsPerReadAlloc, _olapsPerReadLast, _olapsPerRead>>
flagVars   == <<_isOutput, _isSeekable, _isNormal, _useSnappy>>
bzVars     == <<bz, bzRet>>
growVars   == <<growLoop>>
ovVars     == <<pc, bufVars, countVars, flagVars, disk, units, filePos, countsFile,
                written, out, ret, calls, allocSeen, countOOB, requested>>

----------------------------------------------------------------------------
(* Bounds of the model. *)

MaxWriteCalls == 2      \* write calls on an output handle that is not read back
MaxBatches    == 1      \* writeOverlaps calls on an output handle that is read back
MaxReadCalls  == 3      \* read and seek calls on one input handle
MaxGrowSteps  == 72     \* additions of one run of the counts array's growth loop
MaxFlushCalls == 4      \* write and flush calls on an output handle that is flushed by hand

----------------------------------------------------------------------------
(* Machine arithmetic.  TLC's integers are 32-bit signed, so a value that *)
(* can exceed 2^31 - 1 is held in parts: a 64-bit payload word as its two  *)
(* 32-bit halves <<high, low>>, and the requested buffer size (any uint32) *)
(* as its two 16-bit halves [hi, lo].  Identifiers, payload halves, counts *)
(* and buffer lengths are integers below 2^31.                             *)

sizeofUint32 == 4

\* The uint32 whose 16-bit halves are hi and lo.
u32(hi, lo) == [hi |-> hi, lo |-> lo]

\* x < n, for a uint32 x and an integer n below 2^16.
u32Less(x, n) == x.hi = 0 /\ x.lo < n

\* x / d, for a uint32 x and a divisor below 2^15: long division by halves.
u32Div(x, d) == (x.hi \div d) * 65536 + ((x.hi % d) * 65536 + x.lo) \div d

\* The uint32 of an integer in 0 .. 2^31 - 1.
u32Of(n) == [hi |-> n \div 65536, lo |-> n % 65536]

\* x <= y, for two uint32.
u32LessEq(x, y) == x.hi < y.hi \/ (x.hi = y.hi /\ x.lo <= y.lo)

\* max(x, y), for two uint32.
u32Max(x, y) == IF u32LessEq(x, y) THEN y ELSE x

\* x / d as a uint32, for a uint32 x and a divisor below 2^15.
u32Quot(x, d) == [hi |-> x.hi \div d, lo |-> ((x.hi % d) * 65536 + x.lo) \div d]

\* x + y passes 2^32, for two uint32.
u32Carries(x, y) == x.hi + y.hi + (x.lo + y.lo) \div 65536 >= 65536

\* x + y in uint32: the sum modulo 2^32.
u32Sum(x, y) == [hi |-> (x.hi + y.hi + (x.lo + y.lo) \div 65536) % 65536,
                 lo |-> (x.lo + y.lo) % 65536]

\* (v >> 32) & 0xffffffff and (v >> 0) & 0xffffffff of a 64-bit word.
high32(v) == v[1]
low32(v)  == v[2]

\* v = first; v <<= 32; v |= second, in a 64-bit word.
shiftOr(first, second) == << first, second >>

Max(a, b) == IF a >= b THEN a ELSE b
Min(a, b) == IF a <= b THEN a ELSE b

Untouched == 0 - 2      \* a field of the caller's record that a read did not store to

----------------------------------------------------------------------------
(* The record and its packed form. *)

\* sizeof(ovOverlapDAT): ovOverlapNWORDS words of 32 bits (5 or 8) or of 64 bits (3).
sizeofDAT(nwords) == IF nwords = 3 THEN 3 * 8 ELSE nwords * sizeofUint32

\* The 32-bit words one payload takes in the buffer.
datWords(nwords) == IF nwords = 3 THEN 6 ELSE nwords

\* The 32-bit words one record takes in the buffer.
recordWords(isNormal, nwords) == (IF isNormal THEN 1 ELSE 2) + datWords(nwords)

\* ovFile::recordSize(), in bytes.
recordSize(isNormal, nwords) ==
  sizeofUint32 * (IF isNormal THEN 1 ELSE 2) + sizeofDAT(nwords)

\* The payload as the writer stores it: a 64-bit word as its high then its low
\* half, a 32-bit word as it is.
packDat(dat, nwords) ==
  IF nwords = 3
    THEN << high32(dat[1]), low32(dat[1]),
            high32(dat[2]), low32(dat[2]),
            high32(dat[3]), low32(dat[3]) >>
    ELSE [k \in 1..nwords |-> dat[k]]

\* The words of one record: a_iid only in the full format, then b_iid, then the payload.
packOverlap(overlap, isNormal, nwords) ==
  (IF isNormal THEN <<>> ELSE << overlap.a_iid >>)
    \o << overlap.b_iid >> \o packDat(overlap.dat, nwords)

\* The payload as the reader rebuilds it from the words at p+1 .. : a 64-bit word
\* is the first word shifted left by 32, or-ed with the second.
unpackDat(buf, p, nwords) ==
  IF nwords = 3
    THEN [k \in 1..3 |-> shiftOr(buf[p + 2*k - 1], buf[p + 2*k])]
    ELSE [k \in 1..nwords |-> buf[p + k]]

\* The record the reader stores to the caller's record from the words that follow
\* index p (0-based) of the buffer; in the normal format a_iid is not stored to.
unpackOverlap(buf, p, isNormal, nwords) ==
  LET q == IF isNormal THEN p ELSE p + 1
  IN  [a_iid |-> IF isNormal THEN Untouched ELSE buf[p + 1],
       b_iid |-> buf[q + 1],
       dat   |-> unpackDat(buf, q + 1, nwords)]

----------------------------------------------------------------------------
(* The constructor's arithmetic. *)

\* The product of the two record sizes (at most 36 * 40: no uint32 wraps).
lcmOf(nwords) ==
  (sizeofUint32 * 1 + sizeofDAT(nwords)) * (sizeofUint32 * 2 + sizeofDAT(nwords))

\* clampBufferSize without the minimum.
clampBufferSize_asRequested(bufferSize) == bufferSize

\* The requested buffer size, raised to 16 * 1024.
clampBufferSize(bufferSize) ==
  IF u32Less(bufferSize, 16 * 1024) THEN u32(0, 16 * 1024) ELSE bufferSize

\* bufferMaxOf without the rounding down to whole records.
bufferMaxOf_unrounded(bufferSize, nwords) ==
  u32Div(clampBufferSize(bufferSize), sizeofUint32)

\* _bufferMax for a requested buffer size (at most 2^32 / 4: no uint32 wraps).
bufferMaxOf(bufferSize, nwords) ==
  u32Div(clampBufferSize(bufferSize), lcmOf(nwords) * sizeofUint32) * lcmOf(nwords)

\* The two assertions that follow the allocation of the buffer.
ctorAsserts(bufferMax, nwords) ==
  /\ bufferMax % (sizeofUint32 * 1 + sizeofDAT(nwords)) = 0
  /\ bufferMax % (sizeofUint32 * 2 + sizeofDAT(nwords)) = 0

\* The first allocation of the counts array.
olapsPerReadAllocInit == 128 * 1024

FileTypes == {"ovFileNormal", "ovFileNormalWrite", "ovFileFull",
              "ovFileFullWrite", "ovFileFullWriteNoCounts"}

\* The fields as the constructor leaves them; isCompressed is what the
\* compressedFileReader says of the file it opened.
ovFileCtor(type, bufferSize, isCompressed, snappy, nwords) ==
  LET reads == type \in {"ovFileNormal", "ovFileFull"}
  IN  [bufferLen        |-> 0,
       bufferPos        |-> bufferMaxOf(bufferSize, nwords),
       bufferMax        |-> bufferMaxOf(bufferSize, nwords),
       olapsPerReadAlloc |-> IF type = "ovFileFullWrite" THEN olapsPerReadAllocInit ELSE 0,
       olapsPerReadLast  |-> 0,
       olapsPerRead      |-> [null |-> type # "ovFileFullWrite", at |-> <<>>],
       isOutput         |-> ~reads,
       isSeekable       |-> reads /\ (isCompressed = FALSE),
       isNormal         |-> type \in {"ovFileNormal", "ovFileNormalWrite"},
       useSnappy        |-> snappy /\ type \notin {"ovFileNormal", "ovFileNormalWrite"}]

----------------------------------------------------------------------------
(* The counts array. *)

\* array[i]
countAt(at, i) == IF i \in DOMAIN at THEN at[i] ELSE 0

\* array[i]++
increment(at, i) ==
  IF i \in DOMAIN at THEN [at EXCEPT ![i] = @ + 1] ELSE at @@ (i :> 1)

\* growMax that stops as soon as newmax reaches newlast.
RECURSIVE growMax_stopsAtLast(_, _)
growMax_stopsAtLast(newmax, newlast) ==
  IF newmax < newlast
    THEN growMax_stopsAtLast(newmax + newmax \div 4, newlast)
    ELSE newmax

\* while (newmax <= newlast) newmax += newmax / 4
RECURSIVE growMax(_, _)
growMax(newmax, newlast) ==
  IF newmax <= newlast
    THEN growMax(newmax + newmax \div 4, newlast)
    ELSE newmax

\* newmax += newmax / 4 in uint32, as the machine computes it: g is the loop's
\* state, the sum is taken modulo 2^32, and wrapped records that it passed 2^32.
growStep(g) ==
  LET quarter == u32Quot(g.newmax, 4)
  IN  [g EXCEPT !.newmax  = u32Sum(g.newmax, quarter),
                !.steps   = @ + 1,
                !.wrapped = @ \/ u32Carries(g.newmax, quarter)]

\* resizeArray(array, arrayLen, arrayMax, newMax, copyData | clearNew): nothing
\* when newMax <= arrayMax; else a new array of newMax entries that holds the
\* first arrayLen entries of the old one and zero in every other entry.
resizeArray(at, arrayLen, arrayMax, newMax) ==
  IF newMax <= arrayMax
    THEN [at |-> at, max |-> arrayMax]
    ELSE [at  |-> [j \in {i \in DOMAIN at : i < arrayLen} |-> at[j]],
          max |-> newMax]

----------------------------------------------------------------------------
(* The block compression of one flushed buffer (snappy). *)

\* snappy::RawCompress: the block's uncompressed length in bytes, then its content.
RawCompress(words) == [ulen |-> Len(words) * sizeofUint32, body |-> words]

\* The bytes RawCompress produced: at least one byte of length, and the content.
compressedLength(words) == 1 + Len(words) * sizeofUint32

\* snappy::GetUncompressedLength, in bytes.
GetUncompressedLength(block) == block.ulen

\* snappy::RawUncompress.
RawUncompress(block) == block.body

\* sizeof(size_t), the width of the length that precedes each block.
sizeofSizeT == 8

----------------------------------------------------------------------------
(* Writing.  A writer state w is the part of the handle and of the file that a *)
(* write call changes: bufferLen, buffer, disk, units, alloc, last, at, oob.   *)

\* writeBuffer that leaves the fill length as it was.
writeBuffer_keepsLen(w, force, isOutput, bufferMax, useSnappy) ==
  IF isOutput = FALSE THEN w
  ELSE IF (force = FALSE) /\ (w.bufferLen < bufferMax) THEN w
  ELSE IF w.bufferLen = 0 THEN w
  ELSE [w EXCEPT
          !.disk = IF useSnappy
                     THEN Append(@, [bl |-> compressedLength(w.buffer),
                                     sb |-> RawCompress(w.buffer)])
                     ELSE @ \o w.buffer,
          !.units = Append(@, w.bufferLen)]

\* writeBuffer that takes every call as not forced.
writeBuffer_neverForced(w, force, isOutput, bufferMax, useSnappy) ==
  IF isOutput = FALSE THEN w
  ELSE IF w.bufferLen < bufferMax THEN w
  ELSE IF w.bufferLen = 0 THEN w
  ELSE [w EXCEPT
          !.disk = IF useSnappy
                     THEN Append(@, [bl |-> compressedLength(w.buffer),
                                     sb |-> RawCompress(w.buffer)])
                     ELSE @ \o w.buffer,
          !.units = Append(@, w.bufferLen),
          !.bufferLen = 0,
          !.buffer = <<>>]

\* ovFile::writeBuffer(force).
writeBuffer(w, force, isOutput, bufferMax, useSnappy) ==
  IF isOutput = FALSE THEN w
  ELSE IF (force = FALSE) /\ (w.bufferLen < bufferMax) THEN w
  ELSE IF w.bufferLen = 0 THEN w
  ELSE [w EXCEPT
          !.disk = IF useSnappy
                     THEN Append(@, [bl |-> compressedLength(w.buffer),
                                     sb |-> RawCompress(w.buffer)])
                     ELSE @ \o w.buffer,
          !.units = Append(@, w.bufferLen),
          !.bufferLen = 0,
          !.buffer = <<>>]

\* _buffer[_bufferLen++] = ... for each word of the record.
putOverlap(w, overlap, isNormal, nwords) ==
  LET words == packOverlap(overlap, isNormal, nwords)
  IN  [w EXCEPT !.buffer = @ \o words, !.bufferLen = @ + Len(words)]

\* countOverlap that counts a record with a_iid = b_iid once.
countOverlap_oncePerRecord(w, overlap) ==
  [w EXCEPT !.at  = IF overlap.a_iid = overlap.b_iid
                      THEN increment(@, overlap.a_iid)
                      ELSE increment(increment(@, overlap.a_iid), overlap.b_iid),
            !.oob = @ \/ overlap.a_iid >= w.alloc \/ overlap.b_iid >= w.alloc]

\* _olapsPerRead[a_iid]++; _olapsPerRead[b_iid]++
countOverlap(w, overlap) ==
  [w EXCEPT !.at  = increment(increment(@, overlap.a_iid), overlap.b_iid),
            !.oob = @ \/ overlap.a_iid >= w.alloc \/ overlap.b_iid >= w.alloc]

\* growCounts that copies _olapsPerReadLast entries, one too few.
growCounts_copiesLast(w, newmax) ==
  LET r == resizeArray(w.at, w.last, w.alloc, newmax)
  IN  [w EXCEPT !.at = r.at, !.alloc = r.max]

\* The resize of the counts array for the identifiers newlast covers.
growCounts(w, newmax) ==
  LET r == resizeArray(w.at, w.last + 1, w.alloc, newmax)
  IN  [w EXCEPT !.at = r.at, !.alloc = r.max]

\* writeOverlap that flushes after the record is stored, not before.
writeOverlap_flushesAfter(w, overlap, hasCounts, isOutput, isNormal, bufferMax, useSnappy, nwords) ==
  LET newlast == Max(Max(w.last, overlap.a_iid), overlap.b_iid)
      newmax  == growMax(w.alloc, newlast)
      w2 == IF hasCounts
              THEN [countOverlap(growCounts(w, newmax), overlap) EXCEPT !.last = newlast]
              ELSE w
  IN  writeBuffer(putOverlap(w2, overlap, isNormal, nwords), FALSE, isOutput, bufferMax, useSnappy)

\* ovFile::writeOverlap(overlap).
writeOverlap(w, overlap, hasCounts, isOutput, isNormal, bufferMax, useSnappy, nwords) ==
  LET w1 == writeBuffer(w, FALSE, isOutput, bufferMax, useSnappy)
      newlast == Max(Max(w1.last, overlap.a_iid), overlap.b_iid)
      newmax  == growMax(w1.alloc, newlast)
      w2 == IF hasCounts
              THEN [countOverlap(growCounts(w1, newmax), overlap) EXCEPT !.last = newlast]
              ELSE w1
  IN  putOverlap(w2, overlap, isNormal, nwords)

\* scanOverlaps that looks at the first record of the range only.
scanOverlaps_firstOnly(g, overlaps, lo, hi) ==
  IF lo > hi THEN g
  ELSE LET newlast == Max(Max(g.newlast, overlaps[lo].a_iid), overlaps[lo].b_iid)
       IN  [newlast |-> newlast, newmax |-> growMax(g.newmax, newlast)]

\* The first loop of writeOverlaps over overlaps[lo .. hi], in order: newlast is
\* raised to each record's identifiers and newmax grown past it.  (The range is
\* taken in two halves only to keep the evaluation shallow.)
RECURSIVE scanOverlaps(_, _, _, _)
scanOverlaps(g, overlaps, lo, hi) ==
  IF lo > hi THEN g
  ELSE IF lo = hi
    THEN LET newlast == Max(Max(g.newlast, overlaps[lo].a_iid), overlaps[lo].b_iid)
         IN  [newlast |-> newlast, newmax |-> growMax(g.newmax, newlast)]
    ELSE LET mid == (lo + hi) \div 2
             g1  == scanOverlaps(g, overlaps, lo, mid)
         IN  IF g1.newmax >= 0 THEN scanOverlaps(g1, overlaps, mid + 1, hi) ELSE g1

\* addOverlap that never flushes the buffer.
addOverlap_noFlush(w, overlap, hasCounts, isOutput, isNormal, bufferMax, useSnappy, nwords) ==
  LET w2 == IF hasCounts THEN countOverlap(w, overlap) ELSE w
  IN  putOverlap(w2, overlap, isNormal, nwords)

\* One pass of the second loop of writeOverlaps.
addOverlap(w, overlap, hasCounts, isOutput, isNormal, bufferMax, useSnappy, nwords) ==
  LET w1 == writeBuffer(w, FALSE, isOutput, bufferMax, useSnappy)
      w2 == IF hasCounts THEN countOverlap(w1, overlap) ELSE w1
  IN  putOverlap(w2, overlap, isNormal, nwords)

\* The second loop of writeOverlaps over overlaps[lo .. hi], in order.
RECURSIVE addOverlaps(_, _, _, _, _, _, _, _, _, _)
addOverlaps(w, overlaps, lo, hi, hasCounts, isOutput, isNormal, bufferMax, useSnappy, nwords) ==
  IF lo > hi THEN w
  ELSE IF lo = hi
    THEN addOverlap(w, overlaps[lo], hasCounts, isOutput, isNormal, bufferMax, useSnappy, nwords)
    ELSE LET mid == (lo + hi) \div 2
             w1  == addOverlaps(w, overlaps, lo, mid,
                                hasCounts, isOutput, isNormal, bufferMax, useSnappy, nwords)
         IN  IF w1.bufferLen >= 0
               THEN addOverlaps(w1, overlaps, mid + 1, hi,
                                hasCounts, isOutput, isNormal, bufferMax, useSnappy, nwords)
               ELSE w1

\* ovFile::writeOverlaps(overlaps, overlapsLen).
writeOverlaps(w, overlaps, hasCounts, isOutput, isNormal, bufferMax, useSnappy, nwords) ==
  LET g  == scanOverlaps([newlast |-> w.last, newmax |-> w.alloc], overlaps, 1, Len(overlaps))
      w1 == IF hasCounts
              THEN [growCounts(w, g.newmax) EXCEPT !.last = g.newlast]
              ELSE w
  IN  addOverlaps(w1, overlaps, 1, Len(overlaps),
                  hasCounts, isOutput, isNormal, bufferMax, useSnappy, nwords)

\* writeCounts without the increment of _olapsPerReadLast.
writeCounts_lastEntries(at, last, alloc) ==
  [exists  |-> TRUE,
   header  |-> last,
   n       |-> last,
   at      |-> [j \in {i \in DOMAIN at : i < last} |-> at[j]],
   overrun |-> last > alloc]

\* The counts file the destructor writes: _olapsPerReadLast, incremented, then
\* that many entries from the start of the array.
writeCounts(at, last, alloc) ==
  [exists  |-> TRUE,
   header  |-> last + 1,
   n       |-> last + 1,
   at      |-> [j \in {i \in DOMAIN at : i < last + 1} |-> at[j]],
   overrun |-> last + 1 > alloc]

noCounts == [exists |-> FALSE, header |-> 0, n |-> 0, at |-> <<>>, overrun |-> FALSE]

----------------------------------------------------------------------------
(* Reading.  A reader state r is the part of the handle, of the stream and of  *)
(* the caller's memory that a read call changes: bufferPos, bufferLen, buffer, *)
(* filePos, got (the records stored to the caller's array), n (the records     *)
(* loaded by this call), eof (the call met an empty buffer) and failed (an     *)
(* assertion or a short read ended the process).                               *)

\* A word of memory that something else overwrote.
Garbage == 0 - 3

\* The index in d of the block that starts at byte pos, 0 when pos is the end of
\* the file, and -1 when no block starts there.
RECURSIVE blockAt(_, _, _)
blockAt(d, i, pos) ==
  IF pos = 0 THEN (IF i > Len(d) THEN 0 ELSE i)
  ELSE IF i > Len(d) \/ pos < sizeofSizeT + d[i].bl THEN 0 - 1
  ELSE blockAt(d, i + 1, pos - (sizeofSizeT + d[i].bl))

\* The words RawUncompress leaves in a buffer of bufferMax words: the words past
\* the end of the buffer land in memory the buffer does not own, and are read
\* back as they were stored ("kept") or as what overwrote them since
\* ("overwritten"); or the store faults ("fault").
uncompressInto(block, bufferMax, clobbered) ==
  LET words == RawUncompress(block)
  IN  [k \in 1..Len(words) |->
         IF k > bufferMax /\ clobbered = "overwritten" THEN Garbage ELSE words[k]]

\* readBuffer that leaves the buffer as it was when the file has no more words.
readBuffer_staleAtEnd(r, d, bufferMax, useSnappy, clobbered) ==
  IF r.bufferPos < r.bufferLen THEN r
  ELSE IF useSnappy
    THEN LET i == blockAt(d, 1, r.filePos)
         IN  IF i = 0 THEN [r EXCEPT !.bufferPos = 0]
             ELSE IF i < 0 THEN [r EXCEPT !.bufferPos = 0, !.failed = TRUE]
             ELSE [r EXCEPT !.bufferPos = 0,
                            !.bufferLen = GetUncompressedLength(d[i].sb) \div sizeofUint32,
                            !.buffer    = uncompressInto(d[i].sb, bufferMax, clobbered),
                            !.filePos   = @ + sizeofSizeT + d[i].bl]
    ELSE LET first == r.filePos \div sizeofUint32
             n     == Min(bufferMax, Max(0, Len(d) - first))
         IN  IF n = 0 THEN [r EXCEPT !.bufferPos = 0]
             ELSE [r EXCEPT !.bufferPos = 0,
                            !.bufferLen = n,
                            !.buffer    = SubSeq(d, first + 1, first + n),
                            !.filePos   = @ + n * sizeofUint32]

\* ovFile::readBuffer().
readBuffer(r, d, bufferMax, useSnappy, clobbered) ==
  IF r.bufferPos < r.bufferLen THEN r
  ELSE IF useSnappy
    THEN LET i == blockAt(d, 1, r.filePos)
         IN  IF i = 0              \* end of file: cl stays 0, nothing is decoded
               THEN [r EXCEPT !.bufferPos = 0, !.bufferLen = 0, !.buffer = <<>>]
             ELSE IF i < 0         \* not the start of a block: a short read
               THEN [r EXCEPT !.bufferPos = 0, !.failed = TRUE]
             ELSE IF clobbered = "fault" /\ Len(RawUncompress(d[i].sb)) > bufferMax
               THEN [r EXCEPT !.bufferPos = 0, !.failed = TRUE]
             ELSE [r EXCEPT !.bufferPos = 0,
                            !.bufferLen = GetUncompressedLength(d[i].sb) \div sizeofUint32,
                            !.buffer    = uncompressInto(d[i].sb, bufferMax, clobbered),
                            !.filePos   = @ + sizeofSizeT + d[i].bl]
    ELSE LET first == r.filePos \div sizeofUint32
             n     == Min(bufferMax, Max(0, Len(d) - first))
         IN  [r EXCEPT !.bufferPos = 0,
                       !.bufferLen = n,
                       !.buffer    = SubSeq(d, first + 1, first + n),
                       !.filePos   = @ + n * sizeofUint32]

\* One record out of the buffer, as readOverlap and each pass of readOverlaps
\* take it: nothing when the buffer is empty after readBuffer.
loadOverlap(r, d, isNormal, bufferMax, useSnappy, nwords, clobbered) ==
  IF r.eof \/ r.failed THEN r
  ELSE LET r1 == readBuffer(r, d, bufferMax, useSnappy, clobbered)
           w  == recordWords(isNormal, nwords)
       IN  IF r1.failed THEN r1
           ELSE IF r1.bufferLen = 0 THEN [r1 EXCEPT !.eof = TRUE]
           ELSE IF r1.bufferPos + w > r1.bufferLen   \* assert(_bufferPos <= _bufferLen)
             THEN [r1 EXCEPT !.failed = TRUE]
           ELSE [r1 EXCEPT
                   !.got = Append(@, unpackOverlap(r1.buffer, r1.bufferPos, isNormal, nwords)),
                   !.n = @ + 1,
                   !.bufferPos = @ + w]

\* ovFile::readOverlap(overlap).
readOverlap(r, d, isNormal, bufferMax, useSnappy, nwords, clobbered) ==
  loadOverlap(r, d, isNormal, bufferMax, useSnappy, nwords, clobbered)

\* The loop of readOverlaps for nLoaded = lo .. hi, in order; a pass after the
\* loop has returned does nothing.
RECURSIVE loadOverlaps(_, _, _, _, _, _, _, _, _)
loadOverlaps(r, d, lo, hi, isNormal, bufferMax, useSnappy, nwords, clobbered) ==
  IF lo > hi THEN r
  ELSE IF lo = hi
    THEN loadOverlap(r, d, isNormal, bufferMax, useSnappy, nwords, clobbered)
    ELSE LET mid == (lo + hi) \div 2
             r1  == loadOverlaps(r, d, lo, mid, isNormal, bufferMax, useSnappy, nwords, clobbered)
         IN  IF r1.eof \/ r1.failed THEN r1
             ELSE loadOverlaps(r1, d, mid + 1, hi, isNormal, bufferMax, useSnappy, nwords, clobbered)

\* ovFile::readOverlaps(overlaps, overlapsLen).
readOverlaps(r, d, overlapsLen, isNormal, bufferMax, useSnappy, nwords, clobbered) ==
  loadOverlaps(r, d, 0, overlapsLen - 1, isNormal, bufferMax, useSnappy, nwords, clobbered)

\* seekOverlap that leaves the buffer's unread words in place.
seekOverlap_keepsBuffer(r, overlap, isSeekable, isNormal, nwords) ==
  IF isSeekable = FALSE
    THEN [r EXCEPT !.failed = TRUE]
    ELSE [r EXCEPT !.filePos = overlap * recordSize(isNormal, nwords)]

\* ovFile::seekOverlap(overlap): the stream at overlap * recordSize() bytes, and the
\* buffer marked as used up.
seekOverlap(r, overlap, isSeekable, isNormal, nwords) ==
  IF isSeekable = FALSE
    THEN [r EXCEPT !.failed = TRUE]
    ELSE [r EXCEPT !.filePos   = overlap * recordSize(isNormal, nwords),
                   !.bufferPos = r.bufferLen]

----------------------------------------------------------------------------
(* The decompressed byte stream, bzipBuffer.  A stream state b holds the     *)
(* fields the inline operations use and rest, the decompressed chunks the    *)
(* decompressor has yet to deliver, one chunk per refill.  The window        *)
(* _bzip2out is indexed from 0 in the code and from 1 here.                  *)

\* What a read of _bzip2out at or past avail_out gives: no byte of the stream.
NoChar == "?"

\* bzipBuffer::fillBuffer: the window refilled with the next chunk and the cursor
\* reset; the end-of-stream flag set when there is no more.
fillBuffer(b) ==
  IF b.rest = <<>>
    THEN [b EXCEPT !._eof = TRUE]
    ELSE [b EXCEPT !._bzip2out    = Head(b.rest),
                   !.avail_out    = Len(Head(b.rest)),
                   !._bzip2outPos = 0,
                   !.rest         = Tail(b.rest)]

\* bzipBuffer::bzipBuffer on a file that decompresses to the chunks given.
bzipBufferCtor(chunks) ==
  fillBuffer([_eof |-> FALSE, _filePos |-> 0, _bzip2outPos |-> 0, avail_out |-> 0,
              _bzip2out |-> <<>>, rest |-> chunks])

\* bzipBuffer::eof
eof(b) == b._eof

\* bzipBuffer::tell
tell(b) == b._filePos

\* bzipBuffer::get
get(b) == IF b._bzip2outPos < b.avail_out THEN b._bzip2out[b._bzip2outPos + 1] ELSE NoChar

\* next that advances whether or not the stream has ended.
next_pastEnd(b) ==
  LET b1 == [b EXCEPT !._bzip2outPos = @ + 1, !._filePos = @ + 1]
  IN  IF b1._bzip2outPos >= b1.avail_out THEN fillBuffer(b1) ELSE b1

\* bzipBuffer::next: the stream after the call; the call returns its _eof.
next(b) ==
  IF b._eof THEN b
  ELSE LET b1 == [b EXCEPT !._bzip2outPos = @ + 1, !._filePos = @ + 1]
       IN  IF b1._bzip2outPos >= b1.avail_out THEN fillBuffer(b1) ELSE b1

\* bzipBuffer::getnext: the byte at the cursor, then next().
getnext(b) == [x |-> get(b), b |-> next(b)]

----------------------------------------------------------------------------
(* The callers' inputs. *)

\* Payload word k of the i-th record written: both halves of a 64-bit word are
\* set and differ, and a 32-bit word uses its high bits.
genWord(i, k, nwords) ==
  IF nwords = 3
    THEN << 2147483647 - (3 * i + k), 65537 * i + k >>
    ELSE 1000003 * k + 2003 * i

\* The i-th record written, by the generator pat: "repeat" draws both identifiers
\* from a few small ones, some records with a_iid = b_iid; "rising" has them rise
\* every 32 records, from just under the first allocation of the counts array.
genOverlap(pat, i, nwords) ==
  [a_iid |-> IF pat = "repeat" THEN i % 3 ELSE 131070 + 3648 * ((i - 1) \div 32),
   b_iid |-> IF pat = "repeat" THEN (i \div 2) % 5 ELSE 131072 + 3648 * ((i - 1) \div 32),
   dat   |-> [k \in 1..nwords |-> genWord(i, k, nwords)]]

\* A batch of n records that follow the first records already written.
genOverlaps(pat, first, n, nwords) == [k \in 1..n |-> genOverlap(pat, first + k, nwords)]

Patterns == {"repeat", "rising"}

\* Identifier pairs for a single record: small, equal, at and across the first
\* allocation of the counts array, and far past it.
IdPairs == { <<0, 1>>, <<5, 5>>, <<131072, 131071>>, <<1000000, 163840>> }

\* The records of one buffer, and batch lengths at, below and above it.
perBuffer(bufferMax, isNormal, nwords) == bufferMax \div recordWords(isNormal, nwords)

BatchLens(perBuf) == {0, perBuf, perBuf + 1}

\* Requested buffer sizes: below the minimum, and above it.
BufferSizes == { u32(0, 0), u32(0, 20000) }

----------------------------------------------------------------------------
(* The handle's life: the calls a program makes on it. *)

Writer == [bufferLen |-> _bufferLen, buffer |-> _buffer, disk |-> disk, units |-> units,
           alloc |-> _olapsPerReadAlloc, last |-> _olapsPerReadLast,
           at |-> _olapsPerRead.at, oob |-> countOOB]

Reader == [bufferPos |-> _bufferPos, bufferLen |-> _bufferLen, buffer |-> _buffer,
           filePos |-> filePos, got |-> <<>>, n |-> 0, eof |-> FALSE, failed |-> FALSE]

SetFields(h) ==
  /\ _bufferLen' = h.bufferLen
  /\ _bufferPos' = h.bufferPos
  /\ _bufferMax' = h.bufferMax
  /\ _buffer' = <<>>
  /\ _olapsPerReadAlloc' = h.olapsPerReadAlloc
  /\ _olapsPerReadLast' = h.olapsPerReadLast
  /\ _olapsPerRead' = h.olapsPerRead
  /\ _isOutput' = h.isOutput
  /\ _isSeekable' = h.isSeekable
  /\ _isNormal' = h.isNormal
  /\ _useSnappy' = h.useSnappy

\* new ovFile(name, type, bufferSize) for writing: the file is created empty.
OpenWriter(type, bufferSize) ==
  /\ pc = "none"
  /\ LET h == ovFileCtor(type, bufferSize, FALSE, SNAPPY, ovOverlapNWORDS)
     IN  /\ SetFields(h)
         /\ pc' = IF ctorAsserts(h.bufferMax, ovOverlapNWORDS) THEN "writer" ELSE "aborted"
         /\ allocSeen' = << h.olapsPerReadAlloc >>
  /\ disk' = <<>>
  /\ units' = <<>>
  /\ filePos' = 0
  /\ written' = <<>>
  /\ out' = <<>>
  /\ ret' = [call |-> "ovFile", n |-> 0, arg |-> 0]
  /\ calls' = <<>>
  /\ countOOB' = FALSE
  /\ requested' = bufferSize
  /\ UNCHANGED <<buildVars, bzVars, growVars, countsFile>>

SetWriter(w) ==
  /\ _bufferLen' = w.bufferLen
  /\ _buffer' = w.buffer
  /\ disk' = w.disk
  /\ units' = w.units
  /\ _olapsPerReadAlloc' = w.alloc
  /\ _olapsPerReadLast' = w.last
  /\ _olapsPerRead' = [_olapsPerRead EXCEPT !.at = w.at]
  /\ countOOB' = w.oob
  /\ allocSeen' = IF w.alloc = _olapsPerReadAlloc THEN allocSeen ELSE Append(allocSeen, w.alloc)

\* writeOverlap(&overlap)
CallWriteOverlap(ids) ==
  /\ pc = "writer"
  /\ LET overlap == [genOverlap("repeat", Len(written) + 1, ovOverlapNWORDS)
                       EXCEPT !.a_iid = ids[1], !.b_iid = ids[2]]
     IN  /\ SetWriter(writeOverlap(Writer, overlap, ~_olapsPerRead.null, _isOutput,
                                   _isNormal, _bufferMax, _useSnappy, ovOverlapNWORDS))
         /\ written' = Append(written, overlap)
  /\ ret' = [call |-> "writeOverlap", n |-> 0, arg |-> 0]
  /\ calls' = Append(calls, "writeOverlap")
  /\ UNCHANGED <<buildVars, bzVars, growVars, pc, _bufferPos, _bufferMax, flagVars, filePos, countsFile, out,
                 requested>>

\* writeOverlaps(overlaps, n)
CallWriteOverlaps(pat, n) ==
  /\ pc = "writer"
  /\ LET overlaps == genOverlaps(pat, Len(written), n, ovOverlapNWORDS)
     IN  /\ SetWriter(writeOverlaps(Writer, overlaps, ~_olapsPerRead.null, _isOutput,
                                    _isNormal, _bufferMax, _useSnappy, ovOverlapNWORDS))
         /\ written' = written \o overlaps
  /\ ret' = [call |-> "writeOverlaps", n |-> 0, arg |-> 0]
  /\ calls' = Append(calls, "writeOverlaps")
  /\ UNCHANGED <<buildVars, bzVars, growVars, pc, _bufferPos, _bufferMax, flagVars, filePos, countsFile, out,
                 requested>>

\* writeBuffer(force): a flush the caller asks for, and the first statement of
\* the destructor (force = TRUE) on a handle of either kind.
CallWriteBuffer(force) ==
  /\ pc \in {"writer", "reader"}
  /\ SetWriter(writeBuffer(Writer, force, _isOutput, _bufferMax, _useSnappy))
  /\ ret' = [call |-> "writeBuffer", n |-> IF force THEN 1 ELSE 0, arg |-> 0]
  /\ calls' = Append(calls, "writeBuffer")
  /\ UNCHANGED <<buildVars, bzVars, growVars, pc, _bufferPos, _bufferMax, flagVars, filePos, countsFile, out,
                 written, requested>>

\* delete of an output handle: the buffer is flushed, the stream released, and
\* the counts written when the handle has them.
CloseWriter ==
  /\ pc = "writer"
  /\ LET w == writeBuffer(Writer, TRUE, _isOutput, _bufferMax, _useSnappy)
     IN  /\ _bufferLen' = w.bufferLen
         /\ _buffer' = w.buffer
         /\ disk' = w.disk
         /\ units' = w.units
  /\ IF _olapsPerRead.null
       THEN UNCHANGED <<_olapsPerReadLast, countsFile>>
       ELSE /\ _olapsPerReadLast' = _olapsPerReadLast + 1
            /\ countsFile' = writeCounts(_olapsPerRead.at, _olapsPerReadLast, _olapsPerReadAlloc)
  /\ pc' = "closed"
  /\ ret' = [call |-> "~ovFile", n |-> 0, arg |-> 0]
  /\ UNCHANGED <<buildVars, bzVars, growVars, _bufferPos, _bufferMax, _olapsPerReadAlloc, _olapsPerRead,
                 flagVars, filePos, written, out, calls, allocSeen, countOOB, requested>>

\* new ovFile(name, type, bufferSize) for reading the file in the format it was
\* written in; isCompressed is whether the file went through gzip, bzip2 or xz.
OpenReader(bufferSize, isCompressed) ==
  /\ pc = "closed"
  /\ LET type == IF _isNormal THEN "ovFileNormal" ELSE "ovFileFull"
         h    == ovFileCtor(type, bufferSize, isCompressed, SNAPPY, ovOverlapNWORDS)
     IN  /\ SetFields(h)
         /\ pc' = IF ctorAsserts(h.bufferMax, ovOverlapNWORDS) THEN "reader" ELSE "aborted"
  /\ filePos' = 0
  /\ out' = <<>>
  /\ ret' = [call |-> "ovFile", n |-> 0, arg |-> 0]
  /\ calls' = <<>>
  /\ requested' = bufferSize
  /\ UNCHANGED <<buildVars, bzVars, growVars, disk, units, countsFile, written, allocSeen, countOOB>>

SetReader(r) ==
  /\ _bufferPos' = r.bufferPos
  /\ _bufferLen' = r.bufferLen
  /\ _buffer' = r.buffer
  /\ filePos' = r.filePos
  /\ out' = out \o r.got
  /\ pc' = IF r.failed THEN "aborted" ELSE pc

\* The outcomes of a store past the end of the buffer: only a build with snappy
\* can make one.
Clobbers == IF SNAPPY THEN {"kept", "overwritten", "fault"} ELSE {"kept"}

\* readOverlap(&overlap)
CallReadOverlap ==
  /\ pc = "reader"
  /\ \E clobbered \in Clobbers :
       LET r == readOverlap(Reader, disk, _isNormal, _bufferMax, _useSnappy,
                            ovOverlapNWORDS, clobbered)
       IN  /\ SetReader(r)
           /\ ret' = [call |-> "readOverlap", n |-> r.n, arg |-> 0]
  /\ calls' = Append(calls, "readOverlap")
  /\ UNCHANGED <<buildVars, bzVars, growVars, _bufferMax, countVars, flagVars, disk, units, countsFile,
                 written, allocSeen, countOOB, requested>>

\* readOverlaps(overlaps, overlapsLen)
CallReadOverlaps(overlapsLen) ==
  /\ pc = "reader"
  /\ \E clobbered \in Clobbers :
       LET r == readOverlaps(Reader, disk, overlapsLen, _isNormal, _bufferMax, _useSnappy,
                             ovOverlapNWORDS, clobbered)
       IN  /\ SetReader(r)
           /\ ret' = [call |-> "readOverlaps", n |-> r.n, arg |-> overlapsLen]
  /\ calls' = Append(calls, "readOverlaps")
  /\ UNCHANGED <<buildVars, bzVars, growVars, _bufferMax, countVars, flagVars, disk, units, countsFile,
                 written, allocSeen, countOOB, requested>>

\* seekOverlap(overlap)
CallSeekOverlap(overlap) ==
  /\ pc = "reader"
  /\ SetReader(seekOverlap(Reader, overlap, _isSeekable, _isNormal, ovOverlapNWORDS))
  /\ ret' = [call |-> "seekOverlap", n |-> overlap, arg |-> overlap]
  /\ calls' = Append(calls, "seekOverlap")
  /\ UNCHANGED <<buildVars, bzVars, growVars, _bufferMax, countVars, flagVars, disk, units, countsFile,
                 written, allocSeen, countOOB, requested>>

----------------------------------------------------------------------------
(* The specifications: one build, and one file written, closed and read. *)

Init ==
  /\ SNAPPY \in BOOLEAN
  /\ ovOverlapNWORDS \in {5, 3, 8}
  /\ pc = "none"
  /\ _bufferLen = 0 /\ _bufferPos = 0 /\ _bufferMax = 0 /\ _buffer = <<>>
  /\ _olapsPerReadAlloc = 0 /\ _olapsPerReadLast = 0
  /\ _olapsPerRead = [null |-> TRUE, at |-> <<>>]
  /\ _isOutput = FALSE /\ _isSeekable = FALSE /\ _isNormal = FALSE /\ _useSnappy = FALSE
  /\ disk = <<>>
  /\ units = <<>>
  /\ filePos = 0
  /\ countsFile = noCounts
  /\ written = <<>>
  /\ out = <<>>
  /\ ret = [call |-> "none", n |-> 0, arg |-> 0]
  /\ calls = <<>>
  /\ allocSeen = <<>>
  /\ countOOB = FALSE
  /\ requested = u32(0, 0)
  /\ bz = [_eof |-> FALSE, _filePos |-> 0, _bzip2outPos |-> 0, avail_out |-> 0,
           _bzip2out |-> <<>>, rest |-> <<>>]
  /\ bzRet = [call |-> "none", b |-> FALSE, x |-> NoChar, n |-> 0, atEof |-> FALSE]
  /\ growLoop = [newmax |-> u32(0, 0), newlast |-> u32(0, 0), at |-> "idle",
                 steps |-> 0, wrapped |-> FALSE]

WriteTypes == {"ovFileNormalWrite", "ovFileFullWrite", "ovFileFullWriteNoCounts"}

PerBuffer == perBuffer(_bufferMax, _isNormal, ovOverlapNWORDS)

\* A file is written in batches, closed, and read back in order.
Next ==
  \/ \E type \in {"ovFileNormalWrite", "ovFileFullWrite"}, bufferSize \in BufferSizes :
       OpenWriter(type, bufferSize)
  \/ \E n \in {0, 1, PerBuffer, PerBuffer + 1} :
       Len(calls) < MaxBatches /\ CallWriteOverlaps("rising", n)
  \/ CloseWriter
  \/ \E bufferSize \in BufferSizes : OpenReader(bufferSize, FALSE)
  \/ Len(calls) < MaxReadCalls /\ CallReadOverlap
  \/ \E n \in {PerBuffer, Len(written) + 1} : Len(calls) < MaxReadCalls /\ CallReadOverlaps(n)

Spec == Init /\ [][Next]_vars

\* A file is written, closed, and read with seeks.
NextSeek ==
  \/ \E type \in {"ovFileNormalWrite", "ovFileFullWrite"} : OpenWriter(type, u32(0, 0))
  \/ \E n \in {0, 1, PerBuffer, PerBuffer + 1} :
       Len(calls) < MaxBatches /\ CallWriteOverlaps("repeat", n)
  \/ CloseWriter
  \/ \E isCompressed \in BOOLEAN : OpenReader(u32(0, 0), isCompressed)
  \/ Len(calls) < MaxReadCalls /\ CallReadOverlap
  \/ Len(calls) < MaxReadCalls /\ CallReadOverlaps(Len(written) + 1)
  \/ \E k \in {0, 1, Len(written) - 1} :
       k >= 0 /\ Len(calls) < MaxReadCalls /\ CallSeekOverlap(k)

SpecSeek == Init /\ [][NextSeek]_vars

\* An output handle is written to, one record or one batch at a time, and closed.
NextWrite ==
  \/ \E type \in WriteTypes, bufferSize \in BufferSizes : OpenWriter(type, bufferSize)
  \/ \E ids \in IdPairs : Len(calls) < MaxWriteCalls /\ CallWriteOverlap(ids)
  \/ \E pat \in Patterns, n \in BatchLens(PerBuffer) :
       Len(calls) < MaxWriteCalls /\ CallWriteOverlaps(pat, n)
  \/ CloseWriter

SpecWrite == Init /\ [][NextWrite]_vars

\* Requested buffer sizes over the whole of uint32: both halves at and next to
\* their ends, the minimum, and the sizes at which a capacity changes.
CtorSizes == { u32(hi, lo) : hi \in {0, 1, 16, 32767, 32768, 65535},
                             lo \in {0, 1, 16383, 16384, 16385, 18815, 18816, 65535} }

\* A handle is constructed.
NextCtor ==
  \/ \E type \in WriteTypes, bufferSize \in CtorSizes : OpenWriter(type, bufferSize)
  \/ CloseWriter

SpecCtor == Init /\ [][NextCtor]_vars

\* An output handle is filled to the last record of its buffer or past it, then
\* written to one record at a time and flushed by hand; the file is opened for
\* reading and that handle flushed too.
NextFlush ==
  \/ \E type \in {"ovFileNormalWrite", "ovFileFullWrite"} : OpenWriter(type, u32(0, 0))
  \/ \E n \in {PerBuffer - 1, PerBuffer + 1} :
       Len(calls) < MaxBatches /\ CallWriteOverlaps("repeat", n)
  \/ \E ids \in {<<0, 1>>, <<131072, 131071>>} :
       pc = "writer" /\ Len(calls) < MaxFlushCalls /\ CallWriteOverlap(ids)
  \/ \E force \in BOOLEAN : Len(calls) < MaxFlushCalls /\ CallWriteBuffer(force)
  \/ CloseWriter
  \/ OpenReader(u32(0, 0), FALSE)
  \/ Len(calls) < 1 /\ CallReadOverlap

SpecFlush == Init /\ [][NextFlush]_vars

\* The identifiers of a record over the whole of uint32: small, at the initial
\* capacity, on both sides of 2^31, on both sides of the last value newmax takes
\* below 2^32 when grown from 128 * 1024 (3761572608), 4000000000, and the
\* largest, 2^32 - 1.
GrowIds == { u32(0, 0), u32(1, 65535), u32(2, 0), u32(32767, 65535), u32(32768, 0),
             u32(57397, 2815), u32(57397, 2816), u32(61035, 10240), u32(65535, 65535) }

\* writeOverlap (242-246) and writeOverlaps (304-309) on a handle that keeps
\* counts: newmax and newlast as the loop finds them, one identifier of the pair
\* being the larger.
GrowEnter(a_iid, b_iid) ==
  /\ pc = "writer"
  /\ ~_olapsPerRead.null
  /\ growLoop.at = "idle"
  /\ growLoop' = [newmax  |-> u32Of(_olapsPerReadAlloc),
                  newlast |-> u32Max(u32Max(u32Of(_olapsPerReadLast), a_iid), b_iid),
                  at      |-> "loop",
                  steps   |-> 0,
                  wrapped |-> FALSE]
  /\ UNCHANGED <<buildVars, ovVars, bzVars>>

\* while (newmax <= newlast): one pass of the body.
GrowStep ==
  /\ growLoop.at = "loop"
  /\ u32LessEq(growLoop.newmax, growLoop.newlast)
  /\ growLoop.steps < MaxGrowSteps
  /\ growLoop' = growStep(growLoop)
  /\ UNCHANGED <<buildVars, ovVars, bzVars>>

\* while (newmax <= newlast): the test fails and the loop is left.
GrowExit ==
  /\ growLoop.at = "loop"
  /\ ~u32LessEq(growLoop.newmax, growLoop.newlast)
  /\ growLoop' = [growLoop EXCEPT !.at = "done"]
  /\ UNCHANGED <<buildVars, ovVars, bzVars>>

\* One output handle, at most one record written to it, and then one run of the
\* growth loop for a record of any identifiers.
NextGrow ==
  \/ \E type \in {"ovFileNormalWrite", "ovFileFullWrite"} : OpenWriter(type, u32(0, 0))
  \/ \E ids \in {<<0, 1>>, <<131072, 131071>>} :
        pc = "writer" /\ Len(calls) < 1 /\ growLoop.at = "idle" /\ CallWriteOverlap(ids)
  \/ \E a_iid \in GrowIds : \E b_iid \in GrowIds : GrowEnter(a_iid, b_iid)
  \/ GrowStep
  \/ GrowExit

SpecGrow == Init /\ [][NextGrow]_vars

\* The decompressed streams read: empty, one chunk, and two and three chunks of
\* different lengths.
BzStreams == { <<>>,
               << <<"a">> >>,
               << <<"a", "b">> >>,
               << <<"a", "b">>, <<"c">> >>,
               << <<"a">>, <<"b", "c">>, <<"d">> >> }

BzOpen(chunks) ==
  /\ bzRet.call = "none"
  /\ bz' = bzipBufferCtor(chunks)
  /\ bzRet' = [call |-> "bzipBuffer", b |-> FALSE, x |-> NoChar, n |-> 0, atEof |-> FALSE]
  /\ UNCHANGED <<buildVars, ovVars, growVars>>

BzNext ==
  /\ bzRet.call # "none"
  /\ bz' = next(bz)
  /\ bzRet' = [call |-> "next", b |-> eof(next(bz)), x |-> NoChar, n |-> 0, atEof |-> eof(bz)]
  /\ UNCHANGED <<buildVars, ovVars, growVars>>

BzGetnext ==
  /\ bzRet.call # "none"
  /\ bz' = getnext(bz).b
  /\ bzRet' = [call |-> "getnext", b |-> FALSE, x |-> getnext(bz).x, n |-> 0, atEof |-> eof(bz)]
  /\ UNCHANGED <<buildVars, ovVars, growVars>>

BzQuery(q) ==
  /\ bzRet.call # "none"
  /\ bzRet' = [call |-> q,
               b |-> IF q = "eof" THEN eof(bz) ELSE FALSE,
               x |-> IF q = "get" THEN get(bz) ELSE NoChar,
               n |-> IF q = "tell" THEN tell(bz) ELSE 0,
               atEof |-> eof(bz)]
  /\ UNCHANGED <<buildVars, ovVars, growVars, bz>>

\* One bzipBuffer, read to its end and past it.
NextBzip ==
  \/ \E chunks \in BzStreams : BzOpen(chunks)
  \/ BzNext
  \/ BzGetnext
  \/ \E q \in {"eof", "tell", "get"} : BzQuery(q)

SpecBzip == Init /\ [][NextBzip]_vars

----------------------------------------------------------------------------
(* What the claims speak of. *)

\* The identifiers of the records written.
IdsWritten == {written[k].a_iid : k \in 1..Len(written)} \cup
              {written[k].b_iid : k \in 1..Len(written)}

\* The largest identifier written, 0 when nothing was written.
MaxIdWritten == IF IdsWritten = {} THEN 0
                ELSE CHOOSE m \in IdsWritten : \A i \in IdsWritten : i <= m

\* The times i appears as a_iid or as b_iid in the records written.
Occurrences(i) ==
  Cardinality({k \in 1..Len(written) : written[k].a_iid = i}) +
  Cardinality({k \in 1..Len(written) : written[k].b_iid = i})

\* Identifiers that were never written: next to those written, and at the ends.
IdsNotWritten == ({0, 2, 130000} \cup {i + 1 : i \in IdsWritten}) \ IdsWritten

Constructed == pc # "none"

\* The words of the file, in order: of the uncompressed flush units when the
\* file is block-compressed.
RECURSIVE unitWords(_, _)
unitWords(d, i) == IF i > Len(d) THEN <<>> ELSE RawUncompress(d[i].sb) \o unitWords(d, i + 1)

FileWords == IF _useSnappy THEN unitWords(disk, 1) ELSE disk

RECURSIVE SumSeq(_, _)
SumSeq(q, i) == IF i > Len(q) THEN 0 ELSE q[i] + SumSeq(q, i + 1)

\* The words of the file are the packed records written, in write order.
FileHoldsWritten ==
  LET w == recordWords(_isNormal, ovOverlapNWORDS)
  IN  /\ Len(FileWords) = w * Len(written)
      /\ \A k \in 1..Len(written) :
           SubSeq(FileWords, (k - 1) * w + 1, k * w)
             = packOverlap(written[k], _isNormal, ovOverlapNWORDS)

\* writeOverlap called on each of overlaps[lo .. hi], in order.
RECURSIVE writeEach(_, _, _, _)
writeEach(w, overlaps, lo, hi) ==
  IF lo > hi THEN w
  ELSE IF lo = hi
    THEN writeOverlap(w, overlaps[lo], ~_olapsPerRead.null, _isOutput, _isNormal,
                      _bufferMax, _useSnappy, ovOverlapNWORDS)
    ELSE LET mid == (lo + hi) \div 2
             w1  == writeEach(w, overlaps, lo, mid)
         IN  IF w1.bufferLen >= 0 THEN writeEach(w1, overlaps, mid + 1, hi) ELSE w1

\* A record as its role stores it: a normal record leaves a_iid to the caller.
Stored(overlap) == IF _isNormal THEN [overlap EXCEPT !.a_iid = Untouched] ELSE overlap

\* Every record of the file has been returned by the reads since the handle was
\* opened in order from the start.
AllRead == pc = "reader" /\ Len(out) = Len(written)

----------------------------------------------------------------------------
(* C1 .. C4 *)

\* C1 as claimed: the records readOverlaps has returned from a file written by
\* writeOverlaps are the records written, in order, and are all of them once a
\* call has returned 0; no read ends the process.
C1_RoundTrip ==
  /\ (pc = "aborted") => ret.call # "readOverlaps"
  /\ (pc = "reader" /\ ret.call = "readOverlaps") =>
        /\ Len(out) <= Len(written)
        /\ \A k \in 1..Len(out) : out[k] = Stored(written[k])
        /\ (ret.n = 0) => (Len(out) = Len(written))

\* C2: on a seekable handle of a file that is not block-compressed, readOverlap
\* right after seekOverlap(k), k < N, returns 1 and the record k + 1 of the file,
\* whatever the handle did before the seek.
C2_SeekThenRead ==
  [][ ( /\ pc = "reader" /\ _isSeekable /\ ~_useSnappy
        /\ ret.call = "seekOverlap" /\ ret.n < Len(written)
        /\ calls' = Append(calls, "readOverlap") )
      => ( /\ pc' = "reader"
           /\ ret'.n = 1
           /\ out' = Append(out, Stored(written[ret.n + 1])) ) ]_vars

C2_Witness ==
  /\ pc = "reader" /\ _isSeekable /\ ~_useSnappy
  /\ calls = << "readOverlaps", "seekOverlap", "readOverlap" >>
  /\ Len(written) > PerBuffer
  /\ Len(out) = Len(written) + 1
  /\ out[Len(out)] = Stored(written[Len(written)])
  /\ ret.n = 1

\* C3 as claimed: a handle that reads through block compression is not seekable,
\* and seekOverlap never returns on it with the stream repositioned.
C3_BlockCompressedNotSeekable ==
  (pc = "reader" /\ _useSnappy) => (~_isSeekable /\ ret.call # "seekOverlap")

\* C4: once every record of the file has been read, each further readOverlap or
\* readOverlaps returns 0, leaves the records returned as they are, and leaves
\* _bufferPos <= _bufferLen <= _bufferMax.
C4_EndOfDataIsIdempotent ==
  [][ AllRead => ( /\ pc' = "reader"
                   /\ ret'.n = 0
                   /\ out' = out
                   /\ _bufferPos' <= _bufferLen'
                   /\ _bufferLen' <= _bufferMax' ) ]_vars

C4_Witness ==
  /\ AllRead
  /\ Len(written) > PerBuffer
  /\ calls = << "readOverlaps", "readOverlap", "readOverlaps" >>
  /\ ret.n = 0
  /\ _bufferPos = 0 /\ _bufferLen = 0

----------------------------------------------------------------------------
(* C5 .. C10 *)

\* C5: when a full-write handle with counts has been destroyed, the entry of the
\* counts file at every index i up to the largest identifier written is the
\* number of times i appears as a_iid or b_iid in the records written (twice for
\* a record with a_iid = b_iid = i).
C5_CountsFileCounts ==
  (pc = "closed" /\ countsFile.exists) =>
     /\ \A i \in IdsWritten :
          i < countsFile.n /\ countAt(countsFile.at, i) = Occurrences(i)
     /\ \A i \in DOMAIN countsFile.at : i \in IdsWritten
     /\ \A i \in IdsNotWritten : countAt(countsFile.at, i) = 0

C5_Witness ==
  /\ pc = "closed" /\ countsFile.exists
  /\ calls = << "writeOverlaps", "writeOverlap" >>
  /\ Len(allocSeen) > 1
  /\ \E k \in 1..Len(written) : written[k].a_iid = written[k].b_iid
  /\ \E i \in IdsWritten : countAt(countsFile.at, i) > 10

\* C6 as claimed: the header of the counts file is the largest identifier
\* written plus two.
C6_HeaderIsMaxPlusTwo ==
  (pc = "closed" /\ countsFile.exists) => countsFile.header = MaxIdWritten + 2

\* C6 as amended: the header of the counts file is the largest identifier written
\* plus one, and that many entries follow it.
C6_HeaderIsMaxPlusOne ==
  (pc = "closed" /\ countsFile.exists) =>
     /\ countsFile.header = MaxIdWritten + 1
     /\ countsFile.n = countsFile.header

C6_Witness ==
  /\ pc = "closed" /\ countsFile.exists
  /\ MaxIdWritten = 1000000
  /\ countsFile.header = 1000001

\* C7: at the destruction of a full-write handle the counts file is the header
\* _olapsPerReadLast + 1 (the largest identifier written, or 0, plus one), then
\* that many entries, which are the entries 0 .. _olapsPerReadLast of the counts
\* array in order, all of them inside the allocated array.
C7_CountsFileLayout ==
  (pc = "closed" /\ countsFile.exists) =>
     /\ _olapsPerReadLast = MaxIdWritten + 1       \* incremented by the destructor
     /\ countsFile.header = _olapsPerReadLast
     /\ countsFile.n = _olapsPerReadLast
     /\ countsFile.n <= _olapsPerReadAlloc
     /\ ~countsFile.overrun
     /\ DOMAIN countsFile.at = {i \in DOMAIN _olapsPerRead.at : i < countsFile.n}
     /\ \A i \in DOMAIN countsFile.at : countsFile.at[i] = _olapsPerRead.at[i]

C7_Witness ==
  /\ pc = "closed" /\ countsFile.exists
  /\ MaxIdWritten = 131072
  /\ countsFile.n = 131073

\* C8: for every requested buffer size and every payload, the capacity the
\* constructor computes is positive and a multiple of the words of a normal
\* record and of the words of a full record.
C8_CapacityHoldsWholeRecords ==
  Constructed =>
     /\ _bufferMax > 0
     /\ _bufferMax % recordWords(TRUE, ovOverlapNWORDS) = 0
     /\ _bufferMax % recordWords(FALSE, ovOverlapNWORDS) = 0
     /\ pc # "aborted"

C8_Witness ==
  /\ Constructed
  /\ requested = u32(65535, 65535)
  /\ _bufferMax > 1000000

\* C9 as claimed: the capacity is at least 16384 words.
C9_CapacityAtLeast16Ki ==
  Constructed => _bufferMax >= 16 * 1024

\* C9 as amended: the minimum of 16384 is of the requested size, which counts
\* bytes: the capacity in words is at most a quarter of the requested size so
\* raised, is never below the capacity for a request of 16384, and is that
\* capacity, below 16384 words, for every request under 16384.
C9_CapacityFromRaisedRequest ==
  Constructed =>
     /\ _bufferMax >= bufferMaxOf(u32(0, 16 * 1024), ovOverlapNWORDS)
     /\ _bufferMax <= u32Div(IF u32Less(requested, 16 * 1024)
                               THEN u32(0, 16 * 1024) ELSE requested, sizeofUint32)
     /\ u32Less(requested, 16 * 1024) =>
           /\ _bufferMax = bufferMaxOf(u32(0, 16 * 1024), ovOverlapNWORDS)
           /\ _bufferMax < 16 * 1024

C9_Witness ==
  /\ Constructed
  /\ requested = u32(0, 0)
  /\ _bufferMax > 0
  /\ _bufferMax < 16 * 1024

\* C10: on a full-write handle, whatever growth of the counts array the writes
\* so far have caused, every count is the number of occurrences written (none
\* was lost in a growth step), every entry past the largest identifier is zero,
\* and no increment was of an entry at or past the allocated capacity.
C10_GrowthKeepsCounts ==
  (pc = "writer" /\ ~_olapsPerRead.null) =>
     /\ ~countOOB
     /\ _olapsPerReadLast < _olapsPerReadAlloc
     /\ \A i \in IdsWritten : countAt(_olapsPerRead.at, i) = Occurrences(i)
     /\ \A i \in DOMAIN _olapsPerRead.at : i \in IdsWritten /\ i <= _olapsPerReadLast
     /\ \A k \in 1..Len(allocSeen) - 1 : allocSeen[k] < allocSeen[k + 1]

C10_Witness ==
  /\ pc = "writer" /\ ~_olapsPerRead.null
  /\ Len(allocSeen) >= 3
  /\ calls = << "writeOverlaps", "writeOverlaps" >>
  /\ \E i \in IdsWritten : i < olapsPerReadAllocInit /\ countAt(_olapsPerRead.at, i) > 0

----------------------------------------------------------------------------
(* C11 .. C20 *)

\* C11 as claimed: on a handle that reads through block compression, the
\* records readOverlap and readOverlaps have returned are the records written,
\* in order, they are all of them once a call has returned 0, and no read ends
\* the process.
C11_CompressedRoundTrip ==
  (_useSnappy /\ ret.call \in {"readOverlap", "readOverlaps"}) =>
     /\ pc = "reader"
     /\ Len(out) <= Len(written)
     /\ \A k \in 1..Len(out) : out[k] = written[k]
     /\ (ret.n = 0) => (Len(out) = Len(written))

\* C12: when an output handle has been destroyed, the file holds the packed
\* records of every write call since construction, each once and in write
\* order, the flush units handed to the stream add up to them, and the buffer
\* holds nothing.
C12_FlushBeforeRelease ==
  (pc = "closed") =>
     /\ _bufferLen = 0 /\ _buffer = <<>>
     /\ FileHoldsWritten
     /\ SumSeq(units, 1) = Len(FileWords)

C12_Witness ==
  /\ pc = "closed"
  /\ calls = << "writeOverlaps", "writeOverlap" >>
  /\ Len(units) = 2
  /\ units[2] = recordWords(_isNormal, ovOverlapNWORDS)
  /\ Len(written) = PerBuffer + 1
  /\ ~countsFile.exists

\* C13 as claimed: when writeOverlap returns, the fill length is below the
\* capacity.
C13_FullBufferFlushedOnReturn ==
  (pc = "writer" /\ ret.call = "writeOverlap") => _bufferLen < _bufferMax

\* C13 as amended: writeOverlap flushes a full buffer on entry, before it stores
\* the record: a call that finds the buffer full hands that buffer to the stream
\* as one unit and returns with one record in the buffer, any other call hands
\* nothing to the stream and returns with one record more, the capacity at most.
C13_FullBufferFlushedOnEntry ==
  [][ (calls' = Append(calls, "writeOverlap")) =>
        LET w == recordWords(_isNormal, ovOverlapNWORDS)
        IN  IF _bufferLen = _bufferMax
              THEN /\ units' = Append(units, _bufferMax)
                   /\ _bufferLen' = w
              ELSE /\ units' = units
                   /\ _bufferLen' = _bufferLen + w
                   /\ _bufferLen' <= _bufferMax ]_vars

C13_Witness ==
  /\ pc = "writer"
  /\ calls = << "writeOverlaps", "writeOverlap", "writeOverlap" >>
  /\ Len(written) = PerBuffer + 1
  /\ units = << _bufferMax >>
  /\ _bufferLen = recordWords(_isNormal, ovOverlapNWORDS)

\* C14: writeBuffer(force) writes nothing and changes nothing when the handle is
\* not an output handle, when the buffer is empty, or when it is not forced and
\* the fill length is below the capacity; otherwise it hands the filled words to
\* the stream as one unit and sets the fill length to 0.
C14_WriteBufferFrame ==
  [][ (calls' = Append(calls, "writeBuffer")) =>
        LET force == ret'.n = 1
            noop  == \/ ~_isOutput
                     \/ _bufferLen = 0
                     \/ (~force /\ _bufferLen < _bufferMax)
        IN  IF noop
              THEN UNCHANGED <<disk, units, _bufferLen, _buffer, _bufferPos>>
              ELSE /\ FileWords' = FileWords \o _buffer
                   /\ Len(disk') = Len(disk) + (IF _useSnappy THEN 1 ELSE _bufferLen)
                   /\ units' = Append(units, _bufferLen)
                   /\ _bufferLen' = 0 ]_vars

\* Two forced flushes in a row after a batch of one buffer plus one record: the
\* first wrote the one record left in the buffer, the second nothing.
C14_Witness ==
  /\ pc = "writer"
  /\ calls = << "writeOverlaps", "writeBuffer", "writeBuffer" >>
  /\ ret.n = 1
  /\ units = << _bufferMax, recordWords(_isNormal, ovOverlapNWORDS) >>
  /\ _bufferLen = 0
  /\ FileHoldsWritten

\* C15: from any state of an output handle, writeOverlaps of a batch leaves the
\* buffer, the fill length, the file and its flush units, the counts, the
\* largest identifier and the allocated capacity as writeOverlap called on each
\* record of the batch in order leaves them.
C15_BatchIsEachRecord ==
  [][ (calls' = Append(calls, "writeOverlaps")) =>
        LET batch == SubSeq(written', Len(written) + 1, Len(written'))
        IN  Writer' = writeEach(Writer, batch, 1, Len(batch)) ]_vars

C15_Witness ==
  /\ pc = "writer" /\ ~_olapsPerRead.null
  /\ calls = << "writeOverlap", "writeOverlaps" >>
  /\ Len(written) = PerBuffer + 2
  /\ Len(allocSeen) >= 3
  /\ Len(units) = 1
  /\ _bufferLen = 2 * recordWords(_isNormal, ovOverlapNWORDS)

\* C16 as claimed: readOverlaps(overlaps, overlapsLen) with R records left
\* returns min(overlapsLen, R), stores the next records of the file, in order,
\* to that many slots and to no other, and leaves the handle at the record that
\* follows them.
C16_ReadBatchCount ==
  [][ (calls' = Append(calls, "readOverlaps")) =>
        LET R == Len(written) - Len(out)
            n == Min(ret'.arg, R)
            w == recordWords(_isNormal, ovOverlapNWORDS)
        IN  /\ pc' = "reader"
            /\ ret'.n = n
            /\ out' = out \o [k \in 1..n |-> Stored(written[Len(out) + k])]
            /\ ~_useSnappy =>
                 (filePos' \div sizeofUint32) - (_bufferLen' - _bufferPos') = w * Len(out') ]_vars

\* C17: once eof() is true, every next() and getnext() reports the end of the
\* stream and leaves tell() and the window's cursor as they were; before that,
\* each next() adds exactly 1 to tell().
C17_EndOfStreamIsSticky ==
  [][ (bzRet'.call \in {"next", "getnext"}) =>
        /\ eof(bz) => ( /\ eof(bz')
                        /\ bzRet'.call = "next" => bzRet'.b
                        /\ tell(bz') = tell(bz)
                        /\ bz'._bzip2outPos = bz._bzip2outPos )
        /\ (~eof(bz) /\ bzRet'.call = "next") => tell(bz') = tell(bz) + 1 ]_vars

C17_Witness ==
  /\ eof(bz)
  /\ bzRet.call = "getnext" /\ bzRet.atEof
  /\ tell(bz) = 4
  /\ bz.rest = <<>>

\* The fill length is a whole number of records and within the capacity.
WholeRecordsInBuffer ==
  /\ _bufferLen % recordWords(_isNormal, ovOverlapNWORDS) = 0
  /\ 0 <= _bufferLen
  /\ _bufferLen <= _bufferMax
  /\ Len(_buffer) = _bufferLen

\* C18 as claimed: on an output handle the fill length is a whole number of
\* records and at most the capacity, and every flush unit but the last holds
\* exactly the capacity.
C18_OnlyLastUnitShort ==
  (pc = "writer") =>
     /\ WholeRecordsInBuffer
     /\ \A i \in 1..(Len(units) - 1) : units[i] = _bufferMax

\* C18 as amended: on an output handle the fill length is a whole number of
\* records and at most the capacity, and every flush unit is a whole number of
\* records, not empty and at most the capacity; a unit below the capacity is
\* written only by a forced writeBuffer or by the destructor, wherever in the
\* file it falls.
C18_ShortUnitsAreForced ==
  /\ [](pc \in {"writer", "closed"} =>
          /\ WholeRecordsInBuffer
          /\ \A i \in 1..Len(units) :
                /\ units[i] % recordWords(_isNormal, ovOverlapNWORDS) = 0
                /\ 0 < units[i]
                /\ units[i] <= _bufferMax)
  /\ [][ /\ Len(units') >= Len(units)
         /\ \A i \in 1..Len(units) : units'[i] = units[i]
         /\ \A i \in (Len(units) + 1)..Len(units') :
               units'[i] < _bufferMax =>
                  \/ ret'.call = "writeBuffer" /\ ret'.n = 1
                  \/ ret'.call = "~ovFile" ]_vars

\* A forced flush of one record, then a record more and a forced flush of it:
\* the first unit is short and is not the last.
C18_Witness ==
  /\ pc = "writer"
  /\ calls = << "writeOverlap", "writeBuffer", "writeOverlap", "writeBuffer" >>
  /\ ret.n = 1
  /\ units = << recordWords(_isNormal, ovOverlapNWORDS), recordWords(_isNormal, ovOverlapNWORDS) >>
  /\ units[1] < _bufferMax
  /\ _bufferLen = 0

\* C19 as claimed: for every pair of identifiers, 2^32 - 1 included, no addition
\* of the growth loop passes 2^32, and the loop is left with newmax above the
\* largest identifier seen.
C19_GrowthNeverWraps ==
  /\ ~growLoop.wrapped
  /\ (growLoop.at = "done") => ~u32LessEq(growLoop.newmax, growLoop.newlast)
  /\ (growLoop.at = "loop" /\ growLoop.steps = MaxGrowSteps) =>
        ~u32LessEq(growLoop.newmax, growLoop.newlast)

\* C20 as claimed: on a handle that reads through block compression, whatever
\* buffer sizes the writer and the reader were constructed with, no refill
\* stores a word past the end of _buffer: the fill length and the words the
\* buffer holds are at most _bufferMax, and no refill ends the process.
C20_BlockFitsReadBuffer ==
  /\ (pc = "reader" /\ _useSnappy) =>
        /\ _bufferLen <= _bufferMax
        /\ Len(_buffer) <= _bufferMax
  /\ (pc = "aborted" /\ _useSnappy) => ret.call \notin {"readOverlap", "readOverlaps"}

====
